---- MODULE Spec2Model ----
(***************************************************************************)
(* perdir: run one command in a set of directories, at most worker_count   *)
(* at a time, print one report per directory, exit 0 or 1.                 *)
(*                                                                         *)
(* The model follows src/src/perdir/main.py.  One asyncio event loop runs  *)
(* main() and one task per directory; a coroutine runs without preemption  *)
(* from one await to the next, so every action below is the code between   *)
(* two awaits.  main() is additionally cut where a signal may land.        *)
(***************************************************************************)
EXTENDS Integers, Sequences, FiniteSets, TLC

\* ---------------------------------------------------------------- bounds
MaxPaths == 3          \* at most this many paths on the command line
MaxParallel == 2       \* -p takes 0..MaxParallel, or "all"
MaxInterrupts == 2     \* signals delivered to one process (SpecRepeated)

\* ------------------------------------------------------------ constants
PARALLELISM_ALL == "all"
COLOR_GREEN == "green"
COLOR_RED == "red"
\* A Python attribute that is None or holds a value.
None == << >>
Some(v) == <<v>>
Val(o) == o[1]

\* The characters captured output is made of: a printing character and two
\* kinds of whitespace.
Whitespace == {" ", "\n"}
linesep == <<"\n">>

\* What proc.wait() and the temporary file may hold when a child has exited:
\* its exit status and its output (a line, text with trailing blanks, nothing).
ChildResults ==
    { [code |-> 0, out |-> <<"x", "\n">>],
      [code |-> 7, out |-> <<"x", " ">>],
      [code |-> 127, out |-> << >>] }

\* The command after "--": one token is a shell command, more are argv.
Commands == {<<"prog arg">>, <<"prog", "arg">>}

\* The value of -p after ParallelismArgumentType: an int or the word "all".
ParallelInt(n) == [word |-> "int", int |-> n]
ParallelAll == [word |-> PARALLELISM_ALL, int |-> 0]
ValueError == [word |-> "ValueError", int |-> 0]

\* int(value) of the strings of one decimal digit.
IntOf ==
    ("0" :> 0) @@ ("1" :> 1) @@ ("2" :> 2) @@ ("3" :> 3) @@ ("4" :> 4) @@
    ("5" :> 5) @@ ("6" :> 6) @@ ("7" :> 7) @@ ("8" :> 8) @@ ("9" :> 9)

\* str.isdigit(), for the strings -p is tried with.
isdigit(value) == value \in DOMAIN IntOf

\* ParallelismArgumentType.__call__: digits are an int, "all" is itself,
\* anything else is refused.
ParallelismArgumentType(value) ==
    IF isdigit(value) THEN ParallelInt(IntOf[value])
    ELSE IF value = "all" THEN ParallelAll
    ELSE ValueError

\* What -p is tried with: the digits up to MaxParallel, "all", and strings
\* that are neither.
ParallelStrings ==
    {v \in DOMAIN IntOf : IntOf[v] <= MaxParallel} \cup {"all", "-1", "two", ""}

\* The values of -p that argparse lets through.
ParallelValues ==
    {ParallelismArgumentType(v) : v \in ParallelStrings} \ {ValueError}

Paths == 1..MaxPaths

VARIABLES
    args,          \* parsed arguments: parallel, failed_output_only, paths
    cmd_argv,      \* the command
    is_dir,        \* the file system: which of the paths is a directory
    pc,            \* where main() / entrypoint() stands
    worker_count,
    sem_value,     \* asyncio.Semaphore._value
    sem_waiters,   \* asyncio.Semaphore._waiters, first in first out
    tasks,         \* the list tasks of main(), one path per task
    started,       \* how many tasks have run their first step
    state,         \* per path: where the coroutine ExecuteCommand.do stands
    exit_code,     \* per path: ExecuteCommand._exit_code
    output,        \* per path: ExecuteCommand._output
    success,       \* per path: ExecuteCommand._success
    done_queue,    \* finished tasks in the order asyncio.as_completed hands them out
    progressbar,   \* whether the progress bar (real or dummy) has been made
    ticks,         \* the arguments of progressbar.update, in order
    i,             \* the loop counter of main()
    tasks_failed,
    stdout,        \* the writes to sys.stdout, in order
    interrupts,    \* how many times SignalHandler.handle has run
    exit_status    \* the exit status of the process, None while it runs

vars == <<args, cmd_argv, is_dir, pc, worker_count, sem_value, sem_waiters, tasks,
          started, state, exit_code, output, success, done_queue, progressbar,
          ticks, i, tasks_failed, stdout, interrupts, exit_status>>

inputs == <<args, cmd_argv, is_dir>>
semaphore == <<sem_value, sem_waiters>>
fields == <<exit_code, output, success>>
scheduler == <<progressbar, ticks, i, tasks_failed>>

\* ------------------------------------------------------------- helpers
Range(s) == {s[k] : k \in 1..Len(s)}

RECURSIVE rstrip(_)
\* str.rstrip(): drop the trailing whitespace.
rstrip(s) ==
    IF s = << >> THEN s
    ELSE IF s[Len(s)] \in Whitespace THEN rstrip(SubSeq(s, 1, Len(s) - 1))
    ELSE s

\* As Filter, were the paths not filtered at all.
Filter_all(s, keep) == s

RECURSIVE Filter(_, _)
\* [path for path in paths if keep[path]], order kept.
Filter(s, keep) ==
    IF s = << >> THEN << >>
    ELSE IF keep[Head(s)] THEN <<Head(s)>> \o Filter(Tail(s), keep)
    ELSE Filter(Tail(s), keep)

\* The tasks that hold a slot of the semaphore: inside "async with".
Holding == {p \in Paths : state[p] \in {"spawning", "waiting"}}
\* The tasks that have not finished.
Unfinished == {p \in Paths : state[p] \in {"created", "acquiring", "spawning", "waiting"}}

\* ---------------------------------------------------------------- Init
\* The state when main() has parsed its arguments and found a command.
Init ==
    /\ \E n \in 0..MaxPaths, par \in ParallelValues, fo \in BOOLEAN :
          args = [parallel |-> par, failed_output_only |-> fo,
                  paths |-> [k \in 1..n |-> k]]
    /\ cmd_argv \in Commands
    /\ is_dir \in [Paths -> BOOLEAN]
    /\ \A p \in Paths : p > Len(args.paths) => ~is_dir[p]
    /\ pc = "parsed"
    /\ worker_count = 0
    /\ sem_value = 0
    /\ sem_waiters = << >>
    /\ tasks = << >>
    /\ started = 0
    /\ state = [p \in Paths |-> "none"]
    /\ exit_code = [p \in Paths |-> None]
    /\ output = [p \in Paths |-> None]
    /\ success = [p \in Paths |-> None]
    /\ done_queue = << >>
    /\ progressbar = FALSE
    /\ ticks = << >>
    /\ i = 0
    /\ tasks_failed = FALSE
    /\ stdout = << >>
    /\ interrupts = 0
    /\ exit_status = None

\* ------------------------------------------------------ ExecuteCommand
_is_shell_command == Len(cmd_argv) = 1

_determine_success(code) == code = 0

\* As colored, were the exit code left out of the headline.
colored_no_code(path, code, color) == [color |-> color, path |-> path, code |-> None]

\* termcolor.colored(f'>> {path}') and colored(f'>> {path} ({exit_code})'):
\* the headline keeps its colour, its path and the exit code it shows.
colored(path, code, color) == [color |-> color, path |-> path, code |-> code]

\* One call of sys.stdout.write: who wrote, the headline if the text starts
\* with one, and the characters after it.
Write(who, headline, text) == [who |-> who, headline |-> headline, text |-> text]

\* The two writes of print(x): x, then the end "\n".
print(who, headline, text) == <<Write(who, headline, text), Write(who, None, linesep)>>

\* As _print_result, were a success not reported at all in failed-only mode.
_print_result_skips_success(p, code, out) ==
    IF code = 0
    THEN IF args.failed_output_only
         THEN << >>
         ELSE print(p, Some(colored(p, None, COLOR_GREEN)),
                    linesep \o rstrip(out) \o linesep)
    ELSE print(p, Some(colored(p, Some(code), COLOR_RED)),
               linesep \o rstrip(out) \o linesep)

\* As _print_result, were failed-only mode to cut the output of failures too.
_print_result_cuts_failures(p, code, out) ==
    IF code = 0 /\ ~args.failed_output_only
    THEN print(p, Some(colored(p, None, COLOR_GREEN)),
               linesep \o rstrip(out) \o linesep)
    ELSE IF code = 0
    THEN print(p, Some(colored(p, None, COLOR_GREEN)), << >>)
    ELSE IF args.failed_output_only
    THEN print(p, Some(colored(p, Some(code), COLOR_RED)), << >>)
    ELSE print(p, Some(colored(p, Some(code), COLOR_RED)),
               linesep \o rstrip(out) \o linesep)

\* _print_result: the writes that report path p with this exit code and output.
_print_result(p, code, out) ==
    IF _determine_success(code)
    THEN IF args.failed_output_only
         THEN print(p, Some(colored(p, None, COLOR_GREEN)), << >>)
         ELSE print(p, Some(colored(p, None, COLOR_GREEN)),
                    linesep \o rstrip(out) \o linesep)
    ELSE print(p, Some(colored(p, Some(code), COLOR_RED)),
               linesep \o rstrip(out) \o linesep)

\* As ReleasedState, were every waiter woken by one release.
ReleasedState_wakes_all(st) ==
    [q \in Paths |-> IF st[q] = "acquiring" THEN "spawning" ELSE st[q]]

\* Semaphore.release() as seen by the task states: the slot goes to the first
\* waiter, which resumes inside "async with", or back to the counter.
ReleasedState(st) ==
    IF sem_waiters = << >> THEN st
    ELSE [st EXCEPT ![Head(sem_waiters)] = "spawning"]

Release ==
    /\ sem_value' = IF sem_waiters = << >> THEN sem_value + 1 ELSE sem_value
    /\ sem_waiters' = IF sem_waiters = << >> THEN sem_waiters ELSE Tail(sem_waiters)

\* As locked, were the semaphore never consulted.
locked_never == FALSE

\* Semaphore.acquire() has to wait: no free slot.
locked == sem_value <= 0

\* The event loop runs the tasks only while main() is suspended in "await task".
LoopRuns == pc = "loop"

\* The first step of do(): tasks start in the order they were created; the
\* semaphore is taken at once when it has a free slot, else the task queues up.
FirstStep(p) ==
    /\ LoopRuns
    /\ started < Len(tasks)
    /\ p = tasks[started + 1]
    /\ state[p] = "created"
    /\ started' = started + 1
    /\ IF ~locked
       THEN /\ sem_value' = sem_value - 1
            /\ sem_waiters' = sem_waiters
            /\ state' = [state EXCEPT ![p] = "spawning"]
       ELSE /\ sem_value' = sem_value
            /\ sem_waiters' = Append(sem_waiters, p)
            /\ state' = [state EXCEPT ![p] = "acquiring"]
    /\ UNCHANGED <<inputs, pc, worker_count, tasks, fields, done_queue, scheduler,
                   stdout, interrupts, exit_status>>

\* As SpawnOk, were the headline printed when the child starts.
SpawnOk_prints_headline(p) ==
    /\ pc = "loop"
    /\ started = Len(tasks)
    /\ state[p] = "spawning"
    /\ state' = [state EXCEPT ![p] = "waiting"]
    /\ stdout' = Append(stdout, Write(p, Some(colored(p, None, COLOR_GREEN)), << >>))
    /\ UNCHANGED <<inputs, pc, worker_count, semaphore, tasks, started, fields,
                   done_queue, scheduler, interrupts, exit_status>>

\* await asyncio.create_subprocess_shell / _exec returns: the child runs and
\* the task awaits proc.wait().
SpawnOk(p) ==
    /\ LoopRuns
    /\ started = Len(tasks)
    /\ state[p] = "spawning"
    /\ state' = [state EXCEPT ![p] = "waiting"]
    /\ UNCHANGED <<inputs, pc, worker_count, semaphore, tasks, started, fields,
                   done_queue, scheduler, stdout, interrupts, exit_status>>

\* As SpawnRaises, were the slot not given back when the spawn raises.
SpawnRaises_keeps_slot(p) ==
    /\ pc = "loop"
    /\ started = Len(tasks)
    /\ state[p] = "spawning"
    /\ Len(cmd_argv) # 1
    /\ state' = [state EXCEPT ![p] = "raised"]
    /\ done_queue' = Append(done_queue, p)
    /\ UNCHANGED <<inputs, pc, worker_count, semaphore, tasks, started, fields,
                   scheduler, stdout, interrupts, exit_status>>

\* await asyncio.create_subprocess_exec raises (no such program): the exception
\* leaves "async with", which releases the slot, and ends the task.
SpawnRaises(p) ==
    /\ LoopRuns
    /\ started = Len(tasks)
    /\ state[p] = "spawning"
    /\ ~_is_shell_command
    /\ Release
    /\ state' = ReleasedState([state EXCEPT ![p] = "raised"])
    /\ done_queue' = Append(done_queue, p)
    /\ UNCHANGED <<inputs, pc, worker_count, tasks, started, fields, scheduler,
                   stdout, interrupts, exit_status>>

\* await proc.wait() returns: the rest of do() runs without an await.
ChildExit(p) ==
    /\ LoopRuns
    /\ state[p] = "waiting"
    /\ \E r \in ChildResults :
          /\ exit_code' = [exit_code EXCEPT ![p] = Some(r.code)]
          /\ output' = [output EXCEPT ![p] = Some(r.out)]
          /\ success' = [success EXCEPT ![p] = Some(_determine_success(r.code))]
          /\ stdout' = stdout \o _print_result(p, r.code, r.out)
    /\ Release
    /\ state' = ReleasedState([state EXCEPT ![p] = "returned"])
    /\ done_queue' = Append(done_queue, p)
    /\ UNCHANGED <<inputs, pc, worker_count, tasks, started, scheduler, interrupts,
                   exit_status>>

\* ---------------------------------------------------------------- main
\* As WorkerCount, were "all" not looked at.
WorkerCount_int == args.parallel.int

\* worker_count = len(args.paths) if args.parallel == 'all' else args.parallel
WorkerCount ==
    IF args.parallel.word = PARALLELISM_ALL THEN Len(args.paths) ELSE args.parallel.int

\* worker_count and the signal handlers.
InstallHandlers ==
    /\ pc = "parsed"
    /\ worker_count' = WorkerCount
    /\ pc' = "handlers"
    /\ UNCHANGED <<inputs, semaphore, tasks, started, state, fields, done_queue,
                   scheduler, stdout, interrupts, exit_status>>

\* The directories among the paths, the semaphore and one task per directory.
CreateTasks ==
    /\ pc = "handlers"
    /\ tasks' = Filter(args.paths, is_dir)
    /\ sem_value' = worker_count
    /\ sem_waiters' = << >>
    /\ state' = [p \in Paths |-> IF p \in Range(tasks') THEN "created" ELSE "none"]
    /\ pc' = "created"
    /\ UNCHANGED <<inputs, worker_count, started, fields, done_queue, scheduler,
                   stdout, interrupts, exit_status>>

\* tasks_failed = False; with tasks, the progress bar is made and set to 0 and
\* main() awaits the first finished task.
EnterLoop ==
    /\ pc = "created"
    /\ tasks_failed' = FALSE
    /\ IF tasks # << >>
       THEN /\ progressbar' = TRUE
            /\ ticks' = Append(ticks, 0)
       ELSE UNCHANGED <<progressbar, ticks>>
    /\ pc' = "loop"
    /\ UNCHANGED <<inputs, worker_count, semaphore, tasks, started, state, fields,
                   done_queue, i, stdout, interrupts, exit_status>>

\* As fold, were the flag assigned from the last task alone.
fold_last(failed, ok) == ~ok

\* if not success: tasks_failed = True
fold(failed, ok) == failed \/ ~ok

\* As AwaitReturns, were main() to drop the output of a task once handled.
AwaitReturns_drops_output ==
    /\ pc = "loop"
    /\ done_queue # << >>
    /\ state[Head(done_queue)] = "returned"
    /\ done_queue' = Tail(done_queue)
    /\ i' = i + 1
    /\ ticks' = Append(ticks, i')
    /\ tasks_failed' = fold(tasks_failed, Val(success[Head(done_queue)]))
    /\ output' = [output EXCEPT ![Head(done_queue)] = None]
    /\ UNCHANGED <<inputs, pc, worker_count, semaphore, tasks, started, state,
                   exit_code, success, progressbar, stdout, interrupts, exit_status>>

\* success = await task; progressbar.update(i); fold.
AwaitReturns ==
    /\ pc = "loop"
    /\ done_queue # << >>
    /\ state[Head(done_queue)] = "returned"
    /\ done_queue' = Tail(done_queue)
    /\ i' = i + 1
    /\ ticks' = Append(ticks, i')
    /\ tasks_failed' = fold(tasks_failed, Val(success[Head(done_queue)]))
    /\ UNCHANGED <<inputs, pc, worker_count, semaphore, tasks, started, state, fields,
                   progressbar, stdout, interrupts, exit_status>>

\* asyncio.run, left by an exception, cancels the tasks that have not finished:
\* each leaves "async with" by CancelledError and gives its slot back.
CancelAll ==
    /\ state' = [p \in Paths |-> IF p \in Unfinished THEN "cancelled" ELSE state[p]]
    /\ sem_value' = sem_value + Cardinality(Holding)
    /\ sem_waiters' = << >>

\* await task raises the exception the task ended with; main() does not catch
\* it, and it unwinds into asyncio.run.
AwaitRaises ==
    /\ pc = "loop"
    /\ done_queue # << >>
    /\ state[Head(done_queue)] = "raised"
    /\ done_queue' = Tail(done_queue)
    /\ CancelAll
    /\ pc' = "raised"
    /\ UNCHANGED <<inputs, worker_count, tasks, started, fields, scheduler, stdout,
                   interrupts, exit_status>>

\* All tasks handled: return 1 if tasks_failed else 0, and sys.exit of it.
MainReturns ==
    /\ pc = "loop"
    /\ i = Len(tasks)
    /\ exit_status' = Some(IF tasks_failed THEN 1 ELSE 0)
    /\ pc' = "exited"
    /\ UNCHANGED <<inputs, worker_count, semaphore, tasks, started, state, fields,
                   done_queue, scheduler, stdout, interrupts>>

\* The exception leaves asyncio.run and entrypoint(): traceback, status 1.
MainRaised ==
    /\ pc = "raised"
    /\ exit_status' = Some(1)
    /\ pc' = "exited"
    /\ UNCHANGED <<inputs, worker_count, semaphore, tasks, started, state, fields,
                   done_queue, scheduler, stdout, interrupts>>

\* -------------------------------------------------------- SignalHandler
\* The signals main() installs the handler for: SIGINT and SIGTERM.
Signals == {2, 15}

\* print("Interrupt received. Aborting.") in the failure color.
Notice == print(0, None, <<"Interrupt received. Aborting.">>)

\* As handle, were the signal only noted and the run left to go on.
handle_only_notes ==
    /\ pc \in {"handlers", "created", "loop", "raised"}
    /\ interrupts < MaxInterrupts
    /\ interrupts' = interrupts + 1
    /\ stdout' = stdout \o Notice
    /\ UNCHANGED <<inputs, pc, worker_count, semaphore, tasks, started, state, fields,
                   done_queue, scheduler, exit_status>>

\* The first SIGINT or SIGTERM once the handlers are installed, delivered
\* between two steps of the program: the notice is printed and sys.exit(1)
\* raises SystemExit in whatever the main thread is running; it unwinds into
\* asyncio.run, which cancels the tasks.
handle ==
    /\ pc \in {"handlers", "created", "loop", "raised"}
    /\ interrupts < MaxInterrupts
    /\ interrupts' = interrupts + 1
    /\ stdout' = stdout \o Notice
    /\ CancelAll
    /\ pc' = "interrupted"
    /\ UNCHANGED <<inputs, worker_count, tasks, started, fields, done_queue, scheduler,
                   exit_status>>

\* A further signal while SystemExit still unwinds through asyncio.run: the
\* handler runs again, prints again and raises SystemExit again.
handle_again ==
    /\ pc = "interrupted"
    /\ interrupts < MaxInterrupts
    /\ interrupts' = interrupts + 1
    /\ stdout' = stdout \o Notice
    /\ UNCHANGED <<inputs, pc, worker_count, semaphore, tasks, started, state, fields,
                   done_queue, scheduler, exit_status>>

\* A further signal when SystemExit has left entrypoint() and the interpreter
\* is shutting down.  Nothing in the program guards this window: either the
\* handler runs inside the last flush of stdout, its SystemExit is ignored
\* there and the status is 120, or the interpreter has already put the default
\* handlers back and the signal kills the process (status 128 + signal).
signal_at_shutdown ==
    /\ pc = "interrupted"
    /\ interrupts < MaxInterrupts
    /\ interrupts' = interrupts + 1
    /\ \/ /\ exit_status' = Some(120)
          /\ stdout' = stdout \o Notice
       \/ /\ \E sig \in Signals : exit_status' = Some(128 + sig)
          /\ stdout' = stdout
    /\ pc' = "exited"
    /\ UNCHANGED <<inputs, worker_count, semaphore, tasks, started, state, fields,
                   done_queue, scheduler>>

\* As SystemExit, were the status still taken from the aggregate.
SystemExit_aggregate ==
    /\ pc = "interrupted"
    /\ exit_status' = Some(IF tasks_failed THEN 1 ELSE 0)
    /\ pc' = "exited"
    /\ UNCHANGED <<inputs, worker_count, semaphore, tasks, started, state, fields,
                   done_queue, scheduler, stdout, interrupts>>

\* SystemExit(1) leaves asyncio.run and entrypoint(): the process ends with 1.
SystemExit ==
    /\ pc = "interrupted"
    /\ exit_status' = Some(1)
    /\ pc' = "exited"
    /\ UNCHANGED <<inputs, worker_count, semaphore, tasks, started, state, fields,
                   done_queue, scheduler, stdout, interrupts>>

Next ==
    \/ InstallHandlers
    \/ CreateTasks
    \/ EnterLoop
    \/ \E p \in Paths : FirstStep(p)
    \/ \E p \in Paths : SpawnOk(p)
    \/ \E p \in Paths : SpawnRaises(p)
    \/ \E p \in Paths : ChildExit(p)
    \/ AwaitReturns
    \/ AwaitRaises
    \/ MainReturns
    \/ MainRaised
    \/ handle
    \/ SystemExit

\* The runs with at most one signal.
Spec == Init /\ [][Next]_vars

\* The runs in which signals keep coming while the process is on its way out.
NextRepeated ==
    \/ Next
    \/ handle_again
    \/ signal_at_shutdown

SpecRepeated == Init /\ [][NextRepeated]_vars

\* =============================================================== claims
\* The run has ended and no signal was handled.
Ended == pc = "exited" /\ interrupts = 0

\* The number of target directories: one task per directory.
N == Len(tasks)
Tasks == Range(tasks)

\* The positions in stdout where the report of path p starts.
ReportsOf(p) ==
    {k \in 1..Len(stdout) : stdout[k].who = p /\ stdout[k].headline # None}
AllReports == {k \in 1..Len(stdout) : stdout[k].headline # None}
Headline(k) == Val(stdout[k].headline)
IsSuccessReport(k) == Headline(k).color = COLOR_GREEN /\ Headline(k).code = None
IsFailureReport(k, code) == Headline(k).color = COLOR_RED /\ Headline(k).code = Some(code)

\* The task ran its command and the command exited with a nonzero status.
ExitedNonzero(p) == state[p] = "returned" /\ Val(exit_code[p]) # 0
\* The task could not spawn its program.
SpawnFailed(p) == state[p] = "raised"
Unsuccessful(p) == ExitedNonzero(p) \/ SpawnFailed(p)
Succeeded(p) == state[p] = "returned" /\ Val(exit_code[p]) = 0

\* ------------------------------------------------------------------ C1
\* C1: with a finite parallel = P and N > P directories, at most P tasks are
\* between acquiring and releasing the semaphore, in every reachable state.
C1_AtMostPActive ==
    (args.parallel.word = "int" /\ N > args.parallel.int)
        => Cardinality(Holding) <= args.parallel.int

\* C1's case: P = 2 slots are both held and a third task waits for one.
C1_Witness ==
    /\ args.parallel = ParallelInt(2)
    /\ N = 3
    /\ Cardinality(Holding) = 2
    /\ sem_waiters # << >>

\* ------------------------------------------------------------------ C2
\* C2: when a run ends without interrupt, the exit status is 1 if at least one
\* task was unsuccessful and 0 if every task succeeded (no task included).
C2_ExitStatus ==
    Ended =>
        /\ (\E p \in Tasks : Unsuccessful(p)) => exit_status = Some(1)
        /\ (\A p \in Tasks : Succeeded(p)) => exit_status = Some(0)

\* C2's case: of three tasks the first to finish failed and the last to finish
\* succeeded, and the run has ended.
C2_Witness ==
    /\ Ended
    /\ N = 3
    /\ Cardinality({p \in Tasks : Unsuccessful(p)}) = 1
    /\ Cardinality(AllReports) = 3
    /\ ExitedNonzero(stdout[1].who)
    /\ Succeeded(stdout[5].who)
    /\ exit_status = Some(1)

\* ------------------------------------------------------------------ C3
\* C3: a task whose program cannot be spawned is reported as a failure like a
\* nonzero exit and folded into the aggregate, and the run still comes to its
\* normal completion (every task handled by the loop of main()).
C3_SpawnFailureReported ==
    \A p \in Tasks :
        (Ended /\ SpawnFailed(p)) =>
            /\ \E k \in ReportsOf(p) : Headline(k).color = COLOR_RED
            /\ tasks_failed
            /\ i = N

\* ------------------------------------------------------------------ C4
\* C4: a task that fails (nonzero exit or spawn failure) does not abort its
\* siblings: when the run has ended, every other task has run to its end and
\* has been reported.
C4_SiblingsNotAborted ==
    \A p \in Tasks :
        (Ended /\ Unsuccessful(p)) =>
            \A q \in Tasks \ {p} :
                state[q] \in {"returned", "raised"} /\ ReportsOf(q) # {}

\* ------------------------------------------------------------------ C5
\* C5: N directories and a command that exits 0 in each: the run ends with
\* status 0 and there are exactly N reports, one per directory, all successes.
C5_AllSucceed ==
    (Ended /\ \A p \in Tasks : exit_code[p] = Some(0)) =>
        /\ exit_status = Some(0)
        /\ Cardinality(AllReports) = N
        /\ \A p \in Tasks :
              /\ Cardinality(ReportsOf(p)) = 1
              /\ \A k \in ReportsOf(p) : IsSuccessReport(k) /\ Headline(k).path = p

\* C5's case: three directories, every command exited 0, in failed-only mode.
C5_Witness ==
    /\ Ended
    /\ N = 3
    /\ args.failed_output_only
    /\ \A p \in Tasks : exit_code[p] = Some(0)
    /\ exit_status = Some(0)

\* ------------------------------------------------------------------ C6
\* C6: N >= 1 directories and a command that exits K # 0 in each: the run ends
\* with status 1 and every one of the N reports is a failure report whose
\* headline carries that task's path and K.
C6_AllFail ==
    \A r \in ChildResults :
        (r.code # 0 /\ Ended /\ N >= 1 /\ \A p \in Tasks : exit_code[p] = Some(r.code)) =>
            /\ exit_status = Some(1)
            /\ Cardinality(AllReports) = N
            /\ \A p \in Tasks :
                  /\ Cardinality(ReportsOf(p)) = 1
                  /\ \A k \in ReportsOf(p) :
                        IsFailureReport(k, r.code) /\ Headline(k).path = p

\* C6's case: three directories, the command exited 7 in each.
C6_Witness ==
    /\ Ended
    /\ N = 3
    /\ \A p \in Tasks : exit_code[p] = Some(7)
    /\ exit_status = Some(1)

\* ------------------------------------------------------------------ C7
\* C7: once a signal has been handled, whatever the tasks were doing, the
\* process is on its way out or has ended, and when it has ended its status is 1.
C7_InterruptExitsWithOne ==
    interrupts > 0 =>
        \/ pc = "interrupted" /\ exit_status = None
        \/ pc = "exited" /\ exit_status = Some(1)

\* C7's case: the signal came when one task had succeeded and been folded,
\* another was still running, and no task had failed.
C7_Witness ==
    /\ pc = "exited"
    /\ interrupts > 0
    /\ ~tasks_failed
    /\ i = 1
    /\ \E p \in Tasks : Succeeded(p)
    /\ \E p \in Tasks : state[p] = "cancelled"
    /\ exit_status = Some(1)

\* ------------------------------------------------------------------ C8
\* C8: with no directory among the paths, the run ends with status 0, no task
\* is created, nothing is reported and no progress bar is made or updated.
C8_NoDirectories ==
    (Ended /\ \A p \in Range(args.paths) : ~is_dir[p]) =>
        /\ exit_status = Some(0)
        /\ tasks = << >>
        /\ \A p \in Paths : state[p] = "none"
        /\ stdout = << >>
        /\ ~progressbar
        /\ ticks = << >>

\* C8's case: paths were given, none of them is a directory, the run has ended.
C8_Witness ==
    /\ Ended
    /\ Len(args.paths) = 2
    /\ \A p \in Range(args.paths) : ~is_dir[p]
    /\ exit_status = Some(0)

\* ------------------------------------------------------------------ C9
\* The characters of a report: its first write after the headline, then the
\* "\n" that print adds.
ReportText(k) == stdout[k].text \o stdout[k + 1].text

\* s occurs in t as a run of consecutive characters.
OccursIn(s, t) ==
    \E a \in 0..(Len(t) - Len(s)) : \A j \in 1..Len(s) : t[a + j] = s[j]

\* core is out without its trailing whitespace.
IsStripped(core, out) ==
    /\ Len(core) <= Len(out)
    /\ \A j \in 1..Len(core) : core[j] = out[j]
    /\ \A j \in (Len(core) + 1)..Len(out) : out[j] \in Whitespace
    /\ core # << >> => core[Len(core)] \notin Whitespace

\* C9 as stated: in failed-only mode the report of a success is its headline
\* alone and the report of a failure has the exit code and the full captured
\* output; without the mode both kinds of report have the captured output.
C9_FullOutput ==
    \A p \in Tasks : \A k \in ReportsOf(p) :
        IF args.failed_output_only /\ Succeeded(p)
        THEN stdout[k].text = << >>
        ELSE /\ Succeeded(p) \/ IsFailureReport(k, Val(exit_code[p]))
             /\ OccursIn(Val(output[p]), ReportText(k))

\* C9 amended: as C9, but what the report has is the captured output without
\* its trailing whitespace, on the line after the headline and followed by a
\* blank line.
C9_StrippedOutput ==
    \A p \in Tasks : \A k \in ReportsOf(p) :
        IF args.failed_output_only /\ Succeeded(p)
        THEN stdout[k].text = << >> /\ IsSuccessReport(k)
        ELSE /\ Succeeded(p) \/ IsFailureReport(k, Val(exit_code[p]))
             /\ Len(stdout[k].text) >= 2
             /\ <<Head(stdout[k].text)>> = linesep
             /\ <<stdout[k].text[Len(stdout[k].text)]>> = linesep
             /\ IsStripped(SubSeq(stdout[k].text, 2, Len(stdout[k].text) - 1),
                           Val(output[p]))

\* C9's case: in failed-only mode a success with output and a failure whose
\* output ends in a blank have both been reported.
C9_Witness ==
    /\ args.failed_output_only
    /\ \E p \in Tasks : Succeeded(p) /\ Val(output[p]) # << >> /\ ReportsOf(p) # {}
    /\ \E p \in Tasks :
          /\ ExitedNonzero(p)
          /\ ReportsOf(p) # {}
          /\ Val(output[p]) # << >>
          /\ Val(output[p])[Len(Val(output[p]))] = " "

\* ----------------------------------------------------------------- C10
\* C10: the writes of one task's report lie side by side on stdout: each
\* write of a task that starts a report is followed at once by the closing
\* "\n" of the same task, and each closing "\n" follows its own report.
C10_ReportsContiguous ==
    \A k \in 1..Len(stdout) :
        stdout[k].who \in Paths =>
            IF stdout[k].headline # None
            THEN /\ k < Len(stdout)
                 /\ stdout[k + 1].who = stdout[k].who
                 /\ stdout[k + 1].headline = None
            ELSE /\ k > 1
                 /\ stdout[k - 1].who = stdout[k].who
                 /\ stdout[k - 1].headline # None

\* C10's case: three tasks ran at the same time (a slot for each) and
\* reported in another order than they were started.
C10_Witness ==
    /\ worker_count = 3
    /\ N = 3
    /\ Cardinality(AllReports) = 3
    /\ stdout[1].who = 3
    /\ stdout[3].who = 1
    /\ \E p \in Tasks : state[p] = "returned" /\ p \in Range(done_queue)

\* ----------------------------------------------------------------- C11
\* The semaphore has been made: main is past it, or ended with tasks, which
\* are made right after it.
SemaphoreMade == pc \in {"created", "loop", "raised"} \/ N >= 1

\* C11 as stated: with parallel = "all" the capacity of the semaphore equals
\* N, the number of tasks created.
C11_CapacityIsN ==
    (args.parallel = ParallelAll /\ SemaphoreMade) => worker_count = N

\* C11 amended: with parallel = "all" the capacity is the number of paths
\* given, which is at least N, so no task ever waits for a slot.
C11_CapacityIsPathCount ==
    (args.parallel = ParallelAll /\ SemaphoreMade) =>
        /\ worker_count = Len(args.paths)
        /\ worker_count >= N
        /\ sem_waiters = << >>
        /\ \A p \in Tasks : state[p] # "acquiring"

\* C11's case: "all", three paths of which two are directories, and both
\* tasks hold a slot at the same time.
C11_Witness ==
    /\ args.parallel = ParallelAll
    /\ Len(args.paths) = 3
    /\ N = 2
    /\ Cardinality(Holding) = 2
    /\ worker_count = 3

\* ----------------------------------------------------------------- C12
\* C12: the capacity is fixed: the free slots and the tasks that hold a slot
\* always add up to worker_count, whichever way a task left "async with"
\* (return, nonzero exit, exception at the spawn, cancellation).
C12_SlotsConserved ==
    SemaphoreMade =>
        /\ sem_value >= 0
        /\ sem_value + Cardinality(Holding) = worker_count

\* C12's case: of two tasks that held the two slots one left by an exception
\* and the other was cancelled, and both slots are free again.
C12_Witness ==
    /\ worker_count = 2
    /\ N = 2
    /\ \E p \in Tasks : state[p] = "raised"
    /\ \E p \in Tasks : state[p] = "cancelled"
    /\ started = 2
    /\ sem_value = 2

\* ----------------------------------------------------------------- C13
\* The tasks that leave "async with" in this step by themselves.
Releasing == {p \in Holding : state'[p] \in {"returned", "raised"}}

\* The tasks this step takes out of the wait for a slot and lets run.
Admitted == {p \in Tasks : state[p] = "acquiring" /\ state'[p] = "spawning"}

\* The tasks that take a slot in this step without having had to wait.
Entering == {p \in Tasks : state[p] = "created" /\ state'[p] = "spawning"}

\* C13: a release while tasks wait admits exactly one of them, the first in
\* the queue, and no task is let in without a slot: a waiter only in the step
\* of one release, a newcomer only by taking a free slot.
C13_ReleaseAdmitsOne ==
    [][/\ (Releasing # {} /\ sem_waiters # << >>) =>
              /\ Admitted = {Head(sem_waiters)}
              /\ sem_waiters' = Tail(sem_waiters)
              /\ sem_value' = sem_value
       /\ Admitted # {} => (Cardinality(Releasing) = 1 /\ sem_value = 0)
       /\ Entering # {} => (sem_value > 0 /\ sem_value' = sem_value - 1)
       /\ Cardinality(Admitted \cup Entering) <= 1]_vars

\* C13's case: one slot, three tasks; the first has left, the second was
\* admitted by that release, the third still waits.
C13_Witness ==
    /\ worker_count = 1
    /\ N = 3
    /\ state[tasks[1]] = "returned"
    /\ state[tasks[2]] \in {"spawning", "waiting"}
    /\ state[tasks[3]] = "acquiring"
    /\ sem_waiters = <<tasks[3]>>

\* ----------------------------------------------------------------- C14
\* What the tasks have written to stdout, in order.
TaskWrites == SelectSeq(stdout, LAMBDA w : w.who # 0)

\* C14: from the step of the handler on nothing more is reported, ticked,
\* folded or brought to completion: the tasks in flight are cancelled, not
\* awaited, and the process ends with 1 whatever tasks_failed says.
C14_HardStop ==
    [][interrupts' > 0 =>
          /\ TaskWrites' = TaskWrites
          /\ ticks' = ticks
          /\ i' = i
          /\ tasks_failed' = tasks_failed
          /\ fields' = fields
          /\ done_queue' = done_queue
          /\ \A p \in Tasks :
                /\ state'[p] \in {"returned", "raised"} => state'[p] = state[p]
                /\ state'[p] \in {"returned", "raised", "cancelled"}
          /\ exit_status' # None => exit_status' = Some(1)]_vars

\* C14's case: two tasks held the two slots; the signal came while one was in
\* flight and the result of the other, a success, was not yet handled: that
\* result is never folded or ticked, the task in flight is cancelled, no
\* failure is noted, and the status is 1.
C14_Witness ==
    /\ pc = "exited"
    /\ interrupts > 0
    /\ exit_status = Some(1)
    /\ ~tasks_failed
    /\ i = 0
    /\ ticks = <<0>>
    /\ \E p \in Tasks : Succeeded(p) /\ done_queue = <<p>>
    /\ N = 2 /\ started = 2 /\ worker_count = 2
    /\ \E p \in Tasks : state[p] = "cancelled"

\* ----------------------------------------------------------------- C15
\* C15 as stated: however many signals come, also while the process is
\* already on its way out, it is on its way out or has ended with status 1,
\* and one notice was printed for each signal at most.
C15_RepeatedInterruptExitsWithOne ==
    interrupts >= 2 =>
        /\ \/ pc = "interrupted" /\ exit_status = None
           \/ pc = "exited" /\ exit_status = Some(1)
        /\ Len(SelectSeq(stdout, LAMBDA w : w.who = 0)) <= 2 * interrupts

\* ----------------------------------------------------------------- C16
\* Pending (not yet let in), Running (holds a slot), Completed (has left
\* do(), by return, exception or cancellation), as 0, 1, 2.
Phase(st) ==
    CASE st \in {"none", "created", "acquiring"} -> 0
      [] st \in {"spawning", "waiting"} -> 1
      [] st \in {"returned", "raised", "cancelled"} -> 2

\* C16: no task's state ever goes back; a task's exit code and output change
\* in one step only, from unset to set, taken by that task while it holds its
\* slot and before any report of it is in stdout, and that step leaves the
\* fields of every other task alone; no report is printed for a task whose
\* fields are not set.
C16_FieldsWrittenOnce ==
    [][\A p \in Paths :
          /\ Phase(state'[p]) >= Phase(state[p])
          /\ (exit_code'[p] # exit_code[p] \/ output'[p] # output[p]) =>
                /\ exit_code[p] = None /\ output[p] = None
                /\ exit_code'[p] # None /\ output'[p] # None
                /\ p \in Holding
                /\ state'[p] = "returned"
                /\ ReportsOf(p) = {}
                /\ \A q \in Paths \ {p} :
                      exit_code'[q] = exit_code[q] /\ output'[q] = output[q]
          /\ ReportsOf(p)' # {} => (exit_code'[p] # None /\ output'[p] # None)]_vars

\* C16's case: two tasks have written their fields, each once, and been
\* reported, one has been handled by main() since, and a third is still
\* running with its fields unset.
C16_Witness ==
    /\ N = 3
    /\ i = 1
    /\ Len(done_queue) = 1
    /\ \E p, q \in Tasks :
          /\ p # q
          /\ exit_code[p] = Some(0) /\ exit_code[q] = Some(7)
          /\ output[p] # None /\ output[q] # None
          /\ ReportsOf(p) # {} /\ ReportsOf(q) # {}
    /\ \E p \in Tasks : state[p] = "waiting" /\ exit_code[p] = None /\ output[p] = None

\* ----------------------------------------------------------------- C17
\* The tasks whose completion main() has taken from as_completed.
Handled == {p \in Tasks : state[p] \in {"returned", "raised"}} \ Range(done_queue)

\* C17 as stated: with N >= 1 tasks and no signal, the progress bar, once
\* made, has been ticked with 0 and then with 1, 2, ... up to the number of
\* completions handled so far, one tick for each; that number is the number of
\* results folded; a failure among the folded results is in the flag; and
\* when the run has ended all N completions have been handled and ticked.
C17_OneTickPerCompletion ==
    (N >= 1 /\ interrupts = 0 /\ progressbar) =>
        /\ ticks = [k \in 1..(Cardinality(Handled) + 1) |-> k - 1]
        /\ i = Cardinality(Handled)
        /\ tasks_failed = (\E p \in Handled : success[p] = Some(FALSE))
        /\ pc = "exited" => Cardinality(Handled) = N

\* ----------------------------------------------------------------- C18
\* C18 as stated, in the form a finite run refutes: with worker_count >= 1,
\* N >= 1 tasks and no signal, the run does not end before every task has
\* been admitted, has run to its end and has been reported.
C18_EndsWithEveryTaskReported ==
    (Ended /\ N >= 1 /\ worker_count >= 1) =>
        \A p \in Tasks :
            /\ Phase(state[p]) = 2
            /\ state[p] # "cancelled"
            /\ ReportsOf(p) # {}

\* ----------------------------------------------------------------- C19
\* C19 as stated: whatever value of -p ParallelismArgumentType let through,
\* a run with at least one task has worker_count >= 1, and so never sits with
\* every task waiting for a slot that no task holds.
C19_WorkerCountPositive ==
    (SemaphoreMade /\ N >= 1) =>
        /\ worker_count >= 1
        /\ ~(pc = "loop" /\ Holding = {} /\ \A p \in Tasks : state[p] = "acquiring")

\* ----------------------------------------------------------------- C20
\* The tasks that have got past the semaphore, as far as the state tells.
Started == {k \in 1..N : state[tasks[k]] \in {"spawning", "waiting", "returned", "raised"}}

\* C20 as stated: with parallel = 1 the tasks are let in one at a time and in
\* the order they were created, the waiters queue in that order, the reports
\* are in stdout in that order, and a task has not started unless the report
\* of every task created before it is in stdout.
C20_OneAtATimeInOrder ==
    args.parallel = ParallelInt(1) =>
        /\ Cardinality(Holding) <= 1
        /\ \A k \in Started : \A j \in 1..(k - 1) : j \in Started
        /\ \A a, b \in 1..Len(sem_waiters) : a < b => sem_waiters[a] < sem_waiters[b]
        /\ \A a, b \in AllReports : a < b => stdout[a].who < stdout[b].who
        /\ \A k \in Started : \A j \in 1..(k - 1) : ReportsOf(tasks[j]) # {}

====
